---- MODULE Spec2Model ----
(***************************************************************************)
(* State-machine model of the order panel (fardel/apps/ecommerce/order/     *)
(* panel.py) and of the JSON authentication API (web/core/auth/views.py),  *)
(* configured by web/config.py.  Every HTTP request is one atomic step:    *)
(* the relational store is the only shared state and each handler commits  *)
(* before it returns.                                                      *)
(***************************************************************************)
EXTENDS Integers, Sequences, FiniteSets, TLC

VARIABLES
    users,      \* auth user table: sequence of rows, the row's id is its index
    orders,     \* order table: set of rows [id, user_id, status, create_time]
    issued,     \* every token the server has signed so far
    revoked,    \* RevokedToken table: set of jti
    resp,       \* the last request together with its response
    deleted,    \* history: ids removed by a successful order_delete
    toggled,    \* history: per order, the status before each of its last two confirm_order calls
    registered  \* history: emails of successful registrations

vars == <<users, orders, issued, revoked, resp, deleted, toggled, registered>>

(***************************************************************************)
(* Bounds of the model.                                                    *)
(***************************************************************************)
MaxOrders == 3
MaxUsers == 3
MaxTokens == 4

(***************************************************************************)
(* Values.                                                                 *)
(***************************************************************************)
Absent == "<absent>"          \* key not present in the JSON body / dict.get -> None
Null == "<null>"              \* JSON null
None == "<None>"              \* Python None stored in a column
Anonymous == 0                \* flask_login: no user in the session

Emails == {"a@x", "b@x"}
Passwords == {"p", "q"}
OrderIds == 1..MaxOrders

NoToken == [jti |-> 0, type |-> "none", identity |-> "", signed |-> FALSE]
NoData == [json |-> FALSE, first_name |-> Absent, last_name |-> Absent,
           email |-> Absent, password |-> Absent]

\* Python truthiness of a JSON string-or-null value fetched with dict.get
Truthy(v) == v \notin {Absent, Null, ""}

\* dict.get(key): None when the key is absent or null
DictGet(v) == IF v \in {Absent, Null} THEN None ELSE v

NoResp == [op |-> "none", who |-> Anonymous, staff |-> FALSE, arg |-> 0,
           page |-> <<>>, per_page |-> <<>>, items |-> <<>>,
           token |-> NoToken, data |-> NoData, uid |-> 0, result |-> "none",
           access_token |-> NoToken, refresh_token |-> NoToken, access |-> FALSE]

(***************************************************************************)
(* Order panel.                                                            *)
(***************************************************************************)
DefaultPage == 1
DefaultPerPage == 20

\* The decorator stack written above each of the four views, top to bottom.
PanelDecorators == <<"staff_required", "route", "login_required">>

\* Blueprint.route registers the function it is handed: the one built by the
\* decorators written below it.  Decorators above it wrap the module-level
\* name only, which the URL map never calls.
RoutePos == CHOOSE i \in DOMAIN PanelDecorators : PanelDecorators[i] = "route"
RegisteredGuards == {PanelDecorators[i] : i \in {j \in DOMAIN PanelDecorators : j > RoutePos}}

IsStaff(who) == who \in DOMAIN users /\ users[who].is_staff

\* What the registered view function does before the handler body runs.
PanelGate(who) ==
    IF "login_required" \in RegisteredGuards /\ who = Anonymous THEN "unauthorized"
    ELSE IF "staff_required" \in RegisteredGuards /\ ~IsStaff(who) THEN "forbidden"
    ELSE "pass"

OrderRow(id) == CHOOSE o \in orders : o.id = id
OrderExists(id) == \E o \in orders : o.id = id

\* Order.query.order_by(Order.create_time.asc()) as a sequence of rows
RECURSIVE SortAsc(_)
SortAsc(S) ==
    IF S = {} THEN <<>>
    ELSE LET m == CHOOSE o \in S : \A p \in S : o.create_time <= p.create_time
         IN <<m>> \o SortAsc(S \ {m})

Min(a, b) == IF a < b THEN a ELSE b

\* request.args.get(name, default=d, type=int)
ArgGet(param, d) == IF param = <<>> THEN d ELSE param[1]

\* query.paginate(page, per_page, error_out=False).items: a page below 1 is
\* read as page 1, a negative per_page as 20; then LIMIT per_page OFFSET (page-1)*per_page
PaginateItems(rows, page, per_page) ==
    LET pg == IF page < 1 THEN 1 ELSE page
        pp == IF per_page < 0 THEN 20 ELSE per_page
        lo == (pg - 1) * pp + 1
        hi == Min(pg * pp, Len(rows))
    IN [i \in 1..(IF hi >= lo THEN hi - lo + 1 ELSE 0) |-> rows[lo + i - 1].id]

PanelResp(op, who, arg, result) ==
    [NoResp EXCEPT !.op = op, !.who = who, !.staff = IsStaff(who), !.arg = arg,
                   !.result = result]

orders_list(who, pageArg, perPageArg) ==
    LET gate == PanelGate(who)
        page == ArgGet(pageArg, DefaultPage)
        per_page == ArgGet(perPageArg, DefaultPerPage)
        query == SortAsc(orders)
        base == [PanelResp("orders_list", who, 0, gate) EXCEPT
                    !.page = pageArg, !.per_page = perPageArg]
    IN /\ resp' = IF gate # "pass" THEN base
                  ELSE IF per_page = 0 THEN [base EXCEPT !.result = "error"]  \* math.ceil(count / 0)
                  ELSE [base EXCEPT !.result = "rendered",
                                    !.items = PaginateItems(query, page, per_page)]
       /\ UNCHANGED <<users, orders, issued, revoked, deleted, toggled, registered>>

orders_info(who, order_id) ==
    LET gate == PanelGate(who)
    IN /\ resp' = PanelResp("orders_info", who, order_id,
                    IF gate # "pass" THEN gate
                    ELSE IF ~OrderExists(order_id) THEN "not_found"
                    ELSE IF OrderRow(order_id).user_id \notin DOMAIN users THEN "not_found"
                    ELSE "rendered")
       /\ UNCHANGED <<users, orders, issued, revoked, deleted, toggled, registered>>

ToggleStatusElifDropped(s) ==
    LET s1 == IF s = "Unfulfiled" THEN "Fulfiled" ELSE s
    IN IF s1 = "Fulfiled" THEN "Unfulfiled" ELSE s1

ToggleStatus(s) ==
    IF s = "Unfulfiled" THEN "Fulfiled"
    ELSE IF s = "Fulfiled" THEN "Unfulfiled"
    ELSE s

\* keep the statuses before the last two calls
Push2(h, s) == IF Len(h) < 2 THEN Append(h, s) ELSE <<h[2], s>>

confirm_order(who, order_id) ==
    LET gate == PanelGate(who)
    IN IF gate # "pass" \/ ~OrderExists(order_id)
       THEN /\ resp' = PanelResp("confirm_order", who, order_id,
                                 IF gate # "pass" THEN gate ELSE "not_found")
            /\ UNCHANGED <<users, orders, issued, revoked, deleted, toggled, registered>>
       ELSE LET order == OrderRow(order_id)
            IN /\ orders' = (orders \ {order}) \cup
                              {[order EXCEPT !.status = ToggleStatus(order.status)]}
               /\ toggled' = [toggled EXCEPT ![order_id] = Push2(@, order.status)]
               /\ resp' = PanelResp("confirm_order", who, order_id, "redirect")
               /\ UNCHANGED <<users, issued, revoked, deleted, registered>>

DeleteNothing(order) == orders

SessionDelete(order) == orders \ {order}

order_delete(who, order_id) ==
    LET gate == PanelGate(who)
    IN IF gate # "pass" \/ ~OrderExists(order_id)
       THEN /\ resp' = PanelResp("order_delete", who, order_id,
                                 IF gate # "pass" THEN gate ELSE "not_found")
            /\ UNCHANGED <<users, orders, issued, revoked, deleted, toggled, registered>>
       ELSE /\ orders' = SessionDelete(OrderRow(order_id))
            /\ deleted' = deleted \cup {order_id}
            /\ toggled' = [toggled EXCEPT ![order_id] = <<>>]
            /\ resp' = PanelResp("order_delete", who, order_id, "redirect")
            /\ UNCHANGED <<users, issued, revoked, registered>>

(***************************************************************************)
(* Auth API.                                                               *)
(***************************************************************************)
JWT_BLACKLIST_ENABLED == TRUE
ChecksAccessOnly == {"access"}

JWT_BLACKLIST_TOKEN_CHECKS == {"access", "refresh"}

\* User.password setter / User.check_password: the stored value is a hash
Hash(pw) == <<"hash", pw>>
check_password(u, pw) == u.password = Hash(pw)

\* ids of the rows User.query.filter_by(email=email) selects
UsersByEmail(email) == {i \in DOMAIN users : users[i].email = email}

\* BaseResource.check_data(data, fields): a JSON body holding every required
\* field.  The requests below send a required field either not at all or
\* with a non-empty string.
check_data(data, fields) ==
    /\ data.json
    /\ \A f \in fields : data[f] # Absent

\* User.access_dict(): the access summary of an admin or staff user, else nothing
access_dict(u) == u.is_staff

\* RevokedToken lookup registered as the token_in_blacklist_loader
is_jti_blacklisted(jti) == jti \in revoked

\* the user loader registered with the JWT manager: the rows whose email is
\* the token's identity (current_user is one of them)
UserLoader(identity) == UsersByEmail(identity)

\* create_access_token / create_refresh_token: a signed token with a fresh jti
NewToken(n, type, identity) ==
    [jti |-> Cardinality(issued) + n, type |-> type, identity |-> identity, signed |-> TRUE]

\* jwt_required / jwt_refresh_token_required: decode and verify the signature,
\* check the token type, the blacklist, then load the user of the identity.
\* Token expiry is left out: an expired token is turned away like an unsigned one.
VerifyJwt(t, expected) ==
    IF t = NoToken THEN "missing_token"
    ELSE IF ~t.signed \/ t \notin issued THEN "invalid_token"
    ELSE IF t.type # expected THEN "invalid_token"
    ELSE IF JWT_BLACKLIST_ENABLED /\ t.type \in JWT_BLACKLIST_TOKEN_CHECKS
            /\ is_jti_blacklisted(t.jti) THEN "revoked_token"
    ELSE IF UserLoader(t.identity) = {} THEN "user_load_error"
    ELSE "pass"

AuthResp(op, t, data, result) ==
    [NoResp EXCEPT !.op = op, !.token = t, !.data = data, !.result = result]

AuthFrame == UNCHANGED <<orders, deleted, toggled>>

NeverTaken(email) == FALSE

EmailTaken(email) == UsersByEmail(email) # {}

RegistrationApi_post(data) ==
    IF ~check_data(data, {"password", "email"})
    THEN /\ resp' = AuthResp("register", NoToken, data, "bad_request")
         /\ UNCHANGED <<users, issued, revoked, registered>> /\ AuthFrame
    ELSE IF EmailTaken(data.email)
    THEN /\ resp' = AuthResp("register", NoToken, data, "conflict")
         /\ UNCHANGED <<users, issued, revoked, registered>> /\ AuthFrame
    ELSE LET u == [email |-> data.email, password |-> Hash(data.password),
                   first_name |-> DictGet(data.first_name),
                   last_name |-> DictGet(data.last_name), is_staff |-> FALSE]
             access_token == NewToken(1, "access", u.email)
             refresh_token == NewToken(2, "refresh", u.email)
         IN /\ Len(users) < MaxUsers
            /\ Cardinality(issued) + 2 <= MaxTokens
            /\ users' = Append(users, u)
            /\ issued' = issued \cup {access_token, refresh_token}
            /\ registered' = registered \cup {u.email}
            /\ resp' = [AuthResp("register", NoToken, data, "ok") EXCEPT
                           !.uid = Len(users) + 1,
                           !.access_token = access_token,
                           !.refresh_token = refresh_token]
            /\ UNCHANGED revoked /\ AuthFrame

LoginApi_post(data) ==
    IF ~check_data(data, {"email", "password"})
    THEN /\ resp' = AuthResp("login", NoToken, data, "bad_request")
         /\ UNCHANGED <<users, issued, revoked, registered>> /\ AuthFrame
    ELSE LET found == UsersByEmail(data.email)
         IN IF Cardinality(found) > 1
            THEN \* Query.scalar() raises MultipleResultsFound
                 /\ resp' = AuthResp("login", NoToken, data, "error")
                 /\ UNCHANGED <<users, issued, revoked, registered>> /\ AuthFrame
            ELSE IF found # {} /\ check_password(users[CHOOSE i \in found : TRUE], data.password)
            THEN LET uid == CHOOSE i \in found : TRUE
                     u == users[uid]
                     access_token == NewToken(1, "access", u.email)
                     refresh_token == NewToken(2, "refresh", u.email)
                 IN /\ Cardinality(issued) + 2 <= MaxTokens
                    /\ issued' = issued \cup {access_token, refresh_token}
                    /\ resp' = [AuthResp("login", NoToken, data, "ok") EXCEPT
                                   !.uid = uid,
                                   !.access_token = access_token,
                                   !.refresh_token = refresh_token,
                                   !.access = access_dict(u)]
                    /\ UNCHANGED <<users, revoked, registered>> /\ AuthFrame
            ELSE /\ resp' = AuthResp("login", NoToken, data, "unauthorized")
                 /\ UNCHANGED <<users, issued, revoked, registered>> /\ AuthFrame

RevokeOtherJti(jti) == revoked \cup {jti + 1}

\* RevokedToken(jti=jti).add()
RevokedTokenAdd(jti) == revoked \cup {jti}

LogoutApi_post(t) ==
    LET gate == VerifyJwt(t, "access")
    IN /\ resp' = AuthResp("logout", t, NoData, IF gate = "pass" THEN "ok" ELSE gate)
       /\ revoked' = IF gate = "pass" THEN RevokedTokenAdd(t.jti) ELSE revoked
       /\ UNCHANGED <<users, issued, registered>> /\ AuthFrame

LogoutRefreshApi_post(t) ==
    LET gate == VerifyJwt(t, "refresh")
    IN /\ resp' = AuthResp("logout_refresh", t, NoData, IF gate = "pass" THEN "ok" ELSE gate)
       /\ revoked' = IF gate = "pass" THEN RevokedTokenAdd(t.jti) ELSE revoked
       /\ UNCHANGED <<users, issued, registered>> /\ AuthFrame

RefreshTokenApi_post(t) ==
    LET gate == VerifyJwt(t, "refresh")
    IN IF gate # "pass"
       THEN /\ resp' = AuthResp("refresh_token", t, NoData, gate)
            /\ UNCHANGED <<users, issued, revoked, registered>> /\ AuthFrame
       ELSE LET access_token == NewToken(1, "access", t.identity)
            IN /\ Cardinality(issued) + 1 <= MaxTokens
               /\ issued' = issued \cup {access_token}
               /\ resp' = [AuthResp("refresh_token", t, NoData, "ok") EXCEPT
                              !.access_token = access_token]
               /\ UNCHANGED <<users, revoked, registered>> /\ AuthFrame

ProfileApi_get(t) ==
    LET gate == VerifyJwt(t, "access")
    IN /\ \E uid \in (IF gate = "pass" THEN UserLoader(t.identity) ELSE {0}) :
            resp' = [AuthResp("profile_get", t, NoData, IF gate = "pass" THEN "ok" ELSE gate)
                        EXCEPT !.uid = uid]
       /\ UNCHANGED <<users, issued, revoked, registered>> /\ AuthFrame

\* setattr(current_user, field, value); the password setter stores the hash
SetAttr(u, field, value) ==
    IF field = "password" THEN [u EXCEPT !.password = Hash(value)]
    ELSE [u EXCEPT ![field] = value]

SetAlways(u, data, field) == SetAttr(u, field, DictGet(data[field]))

\* one turn of the loop: if data.get(field): setattr(current_user, field, data[field])
SetIfTruthy(u, data, field) ==
    IF Truthy(data[field]) THEN SetAttr(u, field, data[field]) ELSE u

UpdatedUser(u, data) ==
    SetIfTruthy(SetIfTruthy(SetIfTruthy(SetIfTruthy(u, data, "first_name"),
        data, "last_name"), data, "email"), data, "password")

ProfileApi_put(t, data) ==
    LET gate == VerifyJwt(t, "access")
    IN IF gate # "pass"
       THEN /\ resp' = AuthResp("profile_put", t, data, gate)
            /\ UNCHANGED <<users, issued, revoked, registered>> /\ AuthFrame
       ELSE IF ~data.json
       THEN \* request.get_json() is None: data.get raises AttributeError
            /\ resp' = AuthResp("profile_put", t, data, "error")
            /\ UNCHANGED <<users, issued, revoked, registered>> /\ AuthFrame
       ELSE \E uid \in UserLoader(t.identity) :
            /\ users' = [users EXCEPT ![uid] = UpdatedUser(@, data)]
            /\ resp' = [AuthResp("profile_put", t, data, "ok") EXCEPT !.uid = uid]
            /\ UNCHANGED <<issued, revoked, registered>> /\ AuthFrame

(***************************************************************************)
(* Initial states and inputs.                                              *)
(***************************************************************************)
StaffUser == [email |-> "staff@x", password |-> Hash("p"), first_name |-> None,
              last_name |-> None, is_staff |-> TRUE]
Customer == [email |-> "a@x", password |-> Hash("p"), first_name |-> None,
             last_name |-> None, is_staff |-> FALSE]

StatusSeq == <<"Unfulfiled", "Fulfiled", "Pending">>

\* creation times are distinct and not in id order
CreateTime(id) == IF id % 2 = 1 THEN id + 1 ELSE id - 1

InitHistory ==
    /\ issued = {}
    /\ revoked = {}
    /\ resp = NoResp
    /\ deleted = {}
    /\ toggled = [id \in OrderIds |-> <<>>]
    /\ registered = {}

\* a populated shop: a staff account, a customer and the customer's orders
InitPanel ==
    /\ users = <<StaffUser, Customer>>
    /\ \E k \in 0..2 :
         orders = {[id |-> id, user_id |-> 2, status |-> StatusSeq[((id + k) % 3) + 1],
                    create_time |-> CreateTime(id)] : id \in OrderIds}
    /\ InitHistory

\* the auth API on a deployment that holds the staff account only
InitAuth ==
    /\ users = <<StaffUser>>
    /\ orders = {}
    /\ InitHistory

Sessions == {Anonymous} \cup DOMAIN users
PageArgs == {<<>>} \cup {<<n>> : n \in {0, 2}}
PerPageArgs == {<<>>} \cup {<<n>> : n \in {-1, 0, 1, 2}}

NextPanel ==
    \/ \E who \in Sessions, pg \in PageArgs, pp \in PerPageArgs : orders_list(who, pg, pp)
    \/ \E who \in Sessions, id \in OrderIds : orders_info(who, id)
    \/ \E who \in Sessions, id \in OrderIds : confirm_order(who, id)
    \/ \E who \in Sessions, id \in OrderIds : order_delete(who, id)

SpecPanel == InitPanel /\ [][NextPanel]_vars

Body(fn, ln, em, pw) ==
    [json |-> TRUE, first_name |-> fn, last_name |-> ln, email |-> em, password |-> pw]

\* credentials: each required field sent or not
CredBodies ==
    {Body(Absent, Absent, em, pw) : em \in Emails \cup {"staff@x"}, pw \in Passwords}
    \cup {Body(Absent, Absent, "a@x", Absent)}
RegisterBodies ==
    {Body(Absent, Absent, em, "p") : em \in Emails}
    \cup {Body(Absent, Absent, Absent, "p"), Body(Absent, Absent, "a@x", Absent)}
\* profile updates of the email
EmailBodies ==
    {Body(Absent, Absent, em, Absent) : em \in Emails \cup {Absent}}

\* what a client can put in the Authorization header: nothing, a token the
\* server issued, or a token whose signature does not verify
ForgedToken == [jti |-> 1, type |-> "access", identity |-> "staff@x", signed |-> FALSE]
Bearers == {NoToken, ForgedToken} \cup issued

NextAuth ==
    \/ \E data \in RegisterBodies : RegistrationApi_post(data)
    \/ \E data \in CredBodies : LoginApi_post(data)
    \/ \E t \in Bearers : LogoutApi_post(t)
    \/ \E t \in Bearers : LogoutRefreshApi_post(t)
    \/ \E t \in Bearers : RefreshTokenApi_post(t)
    \/ \E t \in Bearers : ProfileApi_get(t)
    \/ \E t \in Bearers, data \in EmailBodies : ProfileApi_put(t, data)

SpecAuth == InitAuth /\ [][NextAuth]_vars

\* profile updates: no body, the empty object, each single field with a
\* falsy and with a truthy value, and bodies that mix sent, falsy and absent fields
SingleField(f, v) == [Body(Absent, Absent, Absent, Absent) EXCEPT ![f] = v]
ProfileBodies ==
    {NoData, Body(Absent, Absent, Absent, Absent),
     Body("Bo", "Ng", "b@x", "q"), Body("", Null, "", Null),
     Body("Bo", Null, "", "q"), Body("", "Ng", "b@x", Absent)}
    \cup {SingleField("first_name", v) : v \in {"", "Bo"}}
    \cup {SingleField("last_name", v) : v \in {Null, "Ng"}}
    \cup {SingleField("email", v) : v \in {"", "b@x"}}
    \cup {SingleField("password", v) : v \in {Null, "q"}}
NamedRegisterBodies ==
    {NoData, Body(Absent, Absent, "a@x", "p"), Body("Ann", "Lee", "a@x", "p"),
     Body("Ann", Null, "a@x", "p")}

NextProfile ==
    \/ \E data \in NamedRegisterBodies : RegistrationApi_post(data)
    \/ \E t \in Bearers : ProfileApi_get(t)
    \/ \E t \in Bearers, data \in ProfileBodies : ProfileApi_put(t, data)

SpecProfile == InitAuth /\ [][NextProfile]_vars

(***************************************************************************)
(* Properties.  Every step of a specification is one request and leaves    *)
(* that request and its response in resp, so resp' in an action formula    *)
(* is the request handled by the step and the unprimed variables are the   *)
(* store it found.                                                         *)
(***************************************************************************)
PanelOps == {"orders_list", "orders_info", "confirm_order", "order_delete"}
DetailOps == {"orders_info", "confirm_order", "order_delete"}
GateRejections == {"unauthorized", "forbidden"}
ProtectedOps == {"logout", "logout_refresh", "refresh_token", "profile_get", "profile_put"}
TokenErrors == {"missing_token", "invalid_token", "revoked_token", "user_load_error"}
Jtis(tokens) == {t.jti : t \in tokens}

\* C1: a panel request made by anyone who is not staff, logged in or not,
\* is turned away before the handler body: nothing is rendered or redirected.
C1_StaffOnly ==
    (resp.op \in PanelOps /\ ~resp.staff) => resp.result \in GateRejections

\* C2: a request bearing an issued token whose jti is in the revocation
\* table is rejected by every token-protected endpoint and changes nothing.
C2_RevokedRejected ==
    [][(resp'.op \in ProtectedOps /\ resp'.token \in issued /\ resp'.token.jti \in revoked)
        => (resp'.result \in TokenErrors /\ UNCHANGED <<users, issued, revoked>>)]_vars

C2_Witness ==
    /\ resp.op \in {"profile_get", "refresh_token"}
    /\ resp.token \in issued
    /\ resp.token.jti \in revoked
    /\ resp.result = "revoked_token"

\* C3 as stated: once a registration with an email has succeeded, every
\* later registration carrying that email and a password gets the conflict
\* response, adds no user and issues no token.
C3_RegisteredOnceConflictsForever ==
    [][(resp'.op = "register" /\ resp'.data.json /\ resp'.data.password # Absent
          /\ resp'.data.email \in registered)
        => (resp'.result = "conflict" /\ UNCHANGED <<users, issued>>)]_vars

\* C3 amended: a registration carrying a password and an email that some
\* user row holds at that moment gets the conflict response, adds no user
\* and issues no token.
C3_HeldEmailConflicts ==
    [][(resp'.op = "register" /\ resp'.data.json /\ resp'.data.password # Absent
          /\ \E i \in DOMAIN users : users[i].email = resp'.data.email)
        => (resp'.result = "conflict" /\ UNCHANGED <<users, issued>>)]_vars

C3_Witness ==
    /\ resp.op = "register"
    /\ resp.result = "conflict"
    /\ resp.data.email \in registered
    /\ resp.data.password # Absent

\* C4: one confirm_order call maps Unfulfiled to Fulfiled, Fulfiled to
\* Unfulfiled and any other status to itself; after two consecutive calls
\* on an order its status is what it was before the first of them.
C4_ToggleTwice ==
    \A id \in OrderIds :
        OrderExists(id) =>
            LET h == toggled[id]
                now == OrderRow(id).status
                before == h[Len(h)]
            IN /\ Len(h) >= 1 =>
                    now = CASE before = "Unfulfiled" -> "Fulfiled"
                            [] before = "Fulfiled" -> "Unfulfiled"
                            [] OTHER -> before
               /\ Len(h) = 2 => now = h[1]

C4_Witness ==
    \E id \in OrderIds :
        /\ OrderExists(id)
        /\ Len(toggled[id]) = 2
        /\ toggled[id][1] = "Unfulfiled"
        /\ toggled[id][2] = "Fulfiled"
        /\ resp.op = "confirm_order"

\* C5: once order_delete has removed an order, orders_info, confirm_order
\* and order_delete for that id never succeed again and answer not-found
\* whenever the handler runs; the delete removes that one row and leaves
\* the other orders and the users as they were.
C5_DeletedStaysGone ==
    [][/\ (resp'.op \in DetailOps /\ resp'.arg \in deleted)
            => /\ resp'.result \in GateRejections \cup {"not_found"}
               /\ resp'.staff => resp'.result = "not_found"
               /\ UNCHANGED orders
       /\ (resp'.op = "order_delete" /\ resp'.result = "redirect")
            => /\ orders' = {o \in orders : o.id # resp'.arg}
               /\ ~(\E o \in orders' : o.id = resp'.arg)
               /\ UNCHANGED users]_vars

C5_Witness ==
    /\ resp.op = "orders_info"
    /\ resp.arg \in deleted
    /\ resp.result = "not_found"
    /\ orders # {}

\* C6: a successful profile update sets each of first_name, last_name,
\* email and password that the body sends with a truthy value (the password
\* as the value check_password then accepts) and keeps every field that is
\* absent, null or empty; is_staff and every other user row are unchanged.
C6_ProfileUpdateFrame ==
    [][(resp'.op = "profile_put" /\ resp'.result = "ok") =>
        LET uid == resp'.uid
            d == resp'.data
        IN /\ uid \in DOMAIN users
           /\ DOMAIN users' = DOMAIN users
           /\ \A f \in {"first_name", "last_name", "email"} :
                users'[uid][f] = IF d[f] \notin {Absent, Null, ""} THEN d[f] ELSE users[uid][f]
           /\ IF d.password \notin {Absent, Null, ""}
              THEN check_password(users'[uid], d.password)
              ELSE users'[uid].password = users[uid].password
           /\ users'[uid].is_staff = users[uid].is_staff
           /\ \A i \in DOMAIN users : i # uid => users'[i] = users[i]]_vars

C6_Witness ==
    /\ resp.op = "profile_put"
    /\ resp.result = "ok"
    /\ resp.data.first_name = "Bo"
    /\ resp.data.last_name = Null
    /\ resp.data.email = ""
    /\ resp.data.password = "q"
    /\ users[resp.uid].first_name = "Bo"
    /\ users[resp.uid].last_name = "Lee"
    /\ users[resp.uid].email = "a@x"
    /\ check_password(users[resp.uid], "q")

\* C7: a login that sends an email and a password matching no user row
\* (unknown email, or a known email with a wrong password) gets the 401
\* "not correct" response, is handed no token and no access summary, and
\* changes nothing stored.
C7_BadCredentialsUnauthorized ==
    [][(resp'.op = "login" /\ resp'.data.json
          /\ resp'.data.email # Absent /\ resp'.data.password # Absent
          /\ ~(\E i \in DOMAIN users : /\ users[i].email = resp'.data.email
                                      /\ check_password(users[i], resp'.data.password)))
        => /\ resp'.result = "unauthorized"
           /\ resp'.access_token = NoToken /\ resp'.refresh_token = NoToken
           /\ ~resp'.access
           /\ UNCHANGED <<users, issued, revoked>>]_vars

\* C8: the revocation table only grows, every jti in it belongs to a token
\* the server issued, and a row is added only by logout or logout-refresh,
\* for the jti of the issued token that authenticated the request.
C8_RevokedWereIssued ==
    /\ revoked \subseteq Jtis(issued)
    /\ [][/\ revoked \subseteq revoked'
          /\ revoked' \subseteq Jtis(issued')
          /\ revoked' # revoked =>
                /\ resp'.op \in {"logout", "logout_refresh"}
                /\ resp'.token \in issued
                /\ revoked' = revoked \cup {resp'.token.jti}]_vars

C8_Witness ==
    /\ \E t \in issued : t.type = "access" /\ t.jti \in revoked
    /\ \E t \in issued : t.type = "refresh" /\ t.jti \in revoked

\* C9, on the requests whose page is at least 1 and whose per_page is at
\* least 0 (or absent): whenever the handler runs, the listing is rendered
\* with exactly the orders at positions (page-1)*per_page .. page*per_page-1
\* of the orders sorted by ascending create_time, none beyond the last.
C9_ListsRequestedPage ==
    (/\ resp.op = "orders_list"
     /\ resp.result \notin GateRejections
     /\ ArgGet(resp.page, 1) >= 1
     /\ ArgGet(resp.per_page, 20) >= 0)
    => LET page == ArgGet(resp.page, 1)
           per_page == ArgGet(resp.per_page, 20)
           sorted == SortAsc(orders)
           positions == {i \in 1..Len(sorted) :
                            (page - 1) * per_page <= i - 1 /\ i - 1 <= page * per_page - 1}
       IN /\ resp.result = "rendered"
          /\ Len(resp.items) = Cardinality(positions)
          /\ \A k \in 1..Len(resp.items) :
                resp.items[k] = sorted[(page - 1) * per_page + k].id

\* C10: no two user rows hold the same email.
C10_EmailUnique ==
    \A i, j \in DOMAIN users : users[i].email = users[j].email => i = j

====
